---- MODULE Spec2Model ----
(***************************************************************************)
(* The message synchronisation core of the chat room: the Room Coordinator *)
(* (class Chat, a partyserver Server backed by a SQLite table) and the     *)
(* Client Reconciler (the usePartySocket handlers of the React App).       *)
(*                                                                         *)
(* Strings that reach the SQL text are sequences of one-character strings, *)
(* so that JSON.stringify and SQLite's reading of the quoted literals are  *)
(* computed character by character.                                        *)
(***************************************************************************)
EXTENDS Integers, Sequences, FiniteSets, TLC

(***************************************************************************)
(* Bounds                                                                  *)
(***************************************************************************)
\* number of distinct message ids (nanoid values) in play
NumIds == 2

Ids == 1..NumIds

(***************************************************************************)
(* Data: ChatMessage / Message                                             *)
(***************************************************************************)
\* timestamp?: absent, or the value Date.now() gave (time is one instant)
NoTs == "absent"
Now == "now"
Timestamps == {NoTs, Now}

\* the `type` property of a parsed event; a row loaded from SQL has none
NoType == "none"

Roles == {"user", "assistant"}

\* content / user / role / timestamp of the events the environment sends:
\* two plain ones, one whose content holds a backslash, and one whose
\* content holds double quotes and whose user holds an apostrophe
PlainBody == [content |-> <<"h", "i">>, user |-> <<"u">>, role |-> "user", timestamp |-> Now]

OtherBody == [content |-> <<"b", "y">>, user |-> <<"v">>, role |-> "assistant", timestamp |-> NoTs]

BackslashBody == [content |-> <<"a", "\\", "b">>, user |-> <<"u">>, role |-> "user", timestamp |-> Now]

QuoteBody ==
  [content |-> <<"\"", "h", "\"">>, user |-> <<"o", "'", "b">>, role |-> "assistant", timestamp |-> NoTs]

Bodies == {PlainBody, OtherBody, BackslashBody, QuoteBody}

\* a parsed add / update event: Message with type add | update
Event(t, i, b) ==
  [type |-> t, id |-> i, content |-> b.content, user |-> b.user,
   role |-> b.role, timestamp |-> b.timestamp]

EventsOf(B) == { Event(t, i, b) : t \in {"add", "update"}, i \in Ids, b \in B }

Events == EventsOf(Bodies)

AddEvents == { e \in Events : e.type = "add" }

UpdateEvents == { e \in Events : e.type = "update" }

\* payloads that are no event of the protocol: a text JSON.parse rejects,
\* and a parsed object whose type is none of add, update, all
Unparseable == [type |-> "unparseable"]

UnknownType == [type |-> "ping"]

Malformed == {Unparseable, UnknownType}

\* JSON.parse(message) returns, or throws a SyntaxError
Parses(raw) == raw # Unparseable

(***************************************************************************)
(* Sequence helpers (Array.prototype)                                      *)
(***************************************************************************)
\* Array.prototype.findIndex with (m) => m.id === id; 0 stands for -1
RECURSIVE FindIndexFrom(_, _, _)
FindIndexFrom(L, id, i) ==
  IF i > Len(L) THEN 0
  ELSE IF L[i].id = id THEN i
  ELSE FindIndexFrom(L, id, i + 1)

FindIndex(L, id) == FindIndexFrom(L, id, 1)

IdsOf(L) == { L[i].id : i \in DOMAIN L }

IdSeq(L) == [i \in DOMAIN L |-> L[i].id]

CountId(L, id) == Cardinality({ i \in DOMAIN L : L[i].id = id })

NoDuplicateIds(L) == \A i, j \in DOMAIN L : L[i].id = L[j].id => i = j

RECURSIVE Concat(_)
Concat(ss) == IF ss = <<>> THEN <<>> ELSE Head(ss) \o Concat(Tail(ss))

(***************************************************************************)
(* The SQL text of saveMessage                                             *)
(***************************************************************************)
\* JSON.stringify of one character of a string
JsonEscapeChar(ch) ==
  IF ch = "\"" THEN <<"\\", "\"">>
  ELSE IF ch = "\\" THEN <<"\\", "\\">>
  ELSE <<ch>>

\* JSON.stringify(message.content): the double-quoted, backslash-escaped text
JsonStringify(s) ==
  <<"\"">> \o Concat([i \in DOMAIN s |-> JsonEscapeChar(s[i])]) \o <<"\"">>

\* SQLite reading a quoted token that starts at t[1] = q and is meant to end
\* at the last character of t: a doubled quote is one quote character, a
\* backslash is an ordinary character, a single quote character closes the
\* token.  A token that closes early, or that is still open at the end of
\* t, leaves the statement malformed.
RECURSIVE SqlScan(_, _, _, _)
SqlScan(t, q, i, acc) ==
  IF i > Len(t) THEN [ok |-> FALSE, val |-> <<>>]
  ELSE IF t[i] = q THEN
         IF i < Len(t) /\ t[i + 1] = q THEN SqlScan(t, q, i + 2, Append(acc, q))
         ELSE IF i = Len(t) THEN [ok |-> TRUE, val |-> acc]
         ELSE [ok |-> FALSE, val |-> <<>>]
  ELSE SqlScan(t, q, i + 1, Append(acc, t[i]))

\* '${s}' in the statement text
SqlSingleQuoted(s) == SqlScan(<<"'">> \o s \o <<"'">>, "'", 2, <<>>)

\* ${JSON.stringify(s)} in the statement text
SqlDoubleQuoted(s) == SqlScan(JsonStringify(s), "\"", 2, <<>>)

\* the columns of table messages, as SQLite resolves a double-quoted name
ColumnValue(row, name) ==
  IF name = <<"i", "d">> THEN [hit |-> TRUE, val |-> row.id]
  ELSE IF name = <<"u", "s", "e", "r">> THEN [hit |-> TRUE, val |-> row.user]
  ELSE IF name = <<"r", "o", "l", "e">> THEN [hit |-> TRUE, val |-> row.role]
  ELSE IF name = <<"c", "o", "n", "t", "e", "n", "t">> THEN [hit |-> TRUE, val |-> row.content]
  ELSE [hit |-> FALSE, val |-> name]

\* does sql.exec of the INSERT ... ON CONFLICT statement run, or throw
UpsertRuns(m) ==
  /\ SqlSingleQuoted(m.user).ok
  /\ SqlDoubleQuoted(m.content).ok

\* ON CONFLICT (id) DO UPDATE SET content = <the double-quoted token>
UpdateRow(row, m) ==
  [row EXCEPT !.content = ColumnValue(row, SqlDoubleQuoted(m.content).val).val]

\* VALUES ('id', 'user', 'role', <the double-quoted token>)
InsertRow(m) ==
  [id |-> m.id, user |-> SqlSingleQuoted(m.user).val, role |-> m.role,
   content |-> SqlDoubleQuoted(m.content).val]

\* the table after the statement of saveMessage (rows in rowid order)
Upsert(D, m) ==
  IF ~UpsertRuns(m) THEN D
  ELSE IF FindIndex(D, m.id) # 0
       THEN [i \in DOMAIN D |-> IF D[i].id = m.id THEN UpdateRow(D[i], m) ELSE D[i]]
       ELSE Append(D, InsertRow(m))

\* SELECT * FROM messages ... toArray() as ChatMessage[]
LoadAll(D) ==
  [i \in DOMAIN D |->
     [type |-> NoType, id |-> D[i].id, content |-> D[i].content,
      user |-> D[i].user, role |-> D[i].role, timestamp |-> NoTs]]

(***************************************************************************)
(* The in-memory log of saveMessage                                        *)
(***************************************************************************)
\* saveMessage that pushes without looking the id up
SaveLogAlwaysPush(L, m) == Append(L, m)

\* saveMessage that drops the old entry and pushes the new one
SaveLogMoveToEnd(L, m) == Append(SelectSeq(L, LAMBDA x : x.id # m.id), m)

\* saveMessage that replaces the content only
SaveLogContentOnly(L, m) ==
  IF FindIndex(L, m.id) # 0
  THEN [i \in DOMAIN L |-> IF L[i].id = m.id THEN [L[i] EXCEPT !.content = m.content] ELSE L[i]]
  ELSE Append(L, m)

\* saveMessage that does not push an update whose id the log lacks
SaveLogStrictUpdate(L, m) ==
  IF FindIndex(L, m.id) # 0
  THEN [i \in DOMAIN L |-> IF L[i].id = m.id THEN m ELSE L[i]]
  ELSE IF m.type = "update" THEN L ELSE Append(L, m)

\* saveMessage that splices: a found entry is replaced and what follows it
\* is cut off
SaveLogTruncating(L, m) ==
  IF FindIndex(L, m.id) # 0
  THEN Append(SubSeq(L, 1, FindIndex(L, m.id) - 1), m)
  ELSE Append(L, m)

\* find, then map-replace or push
SaveLog(L, m) ==
  IF FindIndex(L, m.id) # 0
  THEN [i \in DOMAIN L |-> IF L[i].id = m.id THEN m ELSE L[i]]
  ELSE Append(L, m)

(***************************************************************************)
(* The merge of the Client Reconciler (usePartySocket onMessage)           *)
(***************************************************************************)
\* the object the add and update branches build from the event
LocalEntry(m) ==
  [type |-> NoType, id |-> m.id, content |-> m.content, user |-> m.user,
   role |-> m.role, timestamp |-> Now]

\* Array.prototype.slice(from, to), 0-based and clamped to the array
Slice(L, from, to) ==
  LET hi == IF to > Len(L) THEN Len(L) ELSE to
  IN IF from >= hi THEN <<>> ELSE SubSeq(L, from + 1, hi)

\* Array.prototype.findIndex over the ids of an array; 0 stands for -1
RECURSIVE FindIdFrom(_, _, _)
FindIdFrom(ids, id, i) ==
  IF i > Len(ids) THEN 0
  ELSE IF ids[i] = id THEN i
  ELSE FindIdFrom(ids, id, i + 1)

\* add branch: foundIndex is looked up in the `messages` of the render the
\* handler closes over, of which `seen` holds the ids in order; the updaters
\* run on `view`, the current state
ApplyAdd(view, seen, m) ==
  LET foundIndex == FindIdFrom(seen, m.id, 1) - 1
  IN IF foundIndex = -1
     THEN Append(view, LocalEntry(m))
     ELSE Slice(view, 0, foundIndex) \o <<LocalEntry(m)>> \o Slice(view, foundIndex + 1, Len(view))

\* update branch that appends the entry when the id is not in the view
ApplyUpdateUpsert(view, m) ==
  IF FindIndex(view, m.id) = 0 THEN Append(view, LocalEntry(m))
  ELSE [i \in DOMAIN view |-> IF view[i].id = m.id THEN LocalEntry(m) ELSE view[i]]

\* update branch: messages.map over the current state
ApplyUpdate(view, m) ==
  [i \in DOMAIN view |-> IF view[i].id = m.id THEN LocalEntry(m) ELSE view[i]]

\* {...msg, timestamp: msg.timestamp || Date.now()}
WithTimestamp(msg) ==
  [msg EXCEPT !.timestamp = IF @ = NoTs THEN Now ELSE @]

\* all branch that keeps the entries the snapshot does not list
ApplyAllMerge(view, ms) ==
  SelectSeq(view, LAMBDA x : x.id \notin IdsOf(ms)) \o [i \in DOMAIN ms |-> WithTimestamp(ms[i])]

\* all branch: setMessages(message.messages.map(...))
ApplyAll(view, ms) == [i \in DOMAIN ms |-> WithTimestamp(ms[i])]

\* the state after the handler's setMessages call
Reconciled(view, seen, message) ==
  IF ~Parses(message) THEN view
  ELSE IF message.type = "add" THEN ApplyAdd(view, seen, message)
  ELSE IF message.type = "update" THEN ApplyUpdate(view, message)
  ELSE IF message.type = "all" THEN ApplyAll(view, message.messages)
  ELSE view

(***************************************************************************)
(* State                                                                   *)
(***************************************************************************)
\* number of browser sessions
NumClients == 2

\* most entries a local view is let grow to
MaxView == 2

\* most events in flight to one session
MaxQueue == 2

Clients == 1..NumClients

VARIABLES
  started,         \* Coordinator: onStart has run since the object was last loaded
  messages,        \* Coordinator: Chat.messages, the in-memory log
  db,              \* Coordinator: the rows of SQL table messages, in rowid order
  conns,           \* Coordinator: the connections broadcast reaches
  inbox,           \* per session, what its socket has still to dispatch
  outbox,          \* per session, what it sent and the Coordinator has not served
  clientMessages,  \* per session, the React state `messages`
  closure,         \* per session, the ids of `messages` and the `isConnected` of its last render
  isConnected,     \* per session, the React state `isConnected`
  usedIds,         \* the ids that exist (nanoid returns none of them again)
  last,            \* SpecStore, SpecClient: the call the environment made last
  latest           \* per id, the content of the last add / update event processed

coordVars == <<started, messages, db, latest>>

netVars == <<conns, inbox, outbox>>

clientVars == <<clientMessages, closure, isConnected>>

vars == <<started, messages, db, conns, inbox, outbox, clientMessages, closure,
          isConnected, usedIds, last, latest>>

NoEvent == [type |-> NoType]

NoCall ==
  [op |-> "none", ev |-> NoEvent, hit |-> FALSE, again |-> FALSE, completed |-> TRUE]

Unseen == [seen |-> FALSE, content |-> <<>>]

\* the open / close events of the socket
OpenSignal == [type |-> "open"]

CloseSignal == [type |-> "close"]

ErrorSignal == [type |-> "error"]

\* {type: "all", messages: this.messages}
Snapshot(L) == [type |-> "all", messages |-> L]

Init ==
  /\ started = FALSE
  /\ messages = <<>>
  /\ db = <<>>
  /\ conns = {}
  /\ inbox = [c \in Clients |-> <<>>]
  /\ outbox = [c \in Clients |-> <<>>]
  /\ clientMessages = [c \in Clients |-> <<>>]
  /\ closure = [c \in Clients |-> [ids |-> <<>>, isConnected |-> FALSE]]
  /\ isConnected = [c \in Clients |-> FALSE]
  /\ usedIds = {}
  /\ last = NoCall
  /\ latest = [i \in Ids |-> Unseen]

(***************************************************************************)
(* Room Coordinator                                                        *)
(***************************************************************************)
\* static options = { hibernate: true }: the idle object is dropped from
\* memory; the SQL table and the sockets stay
Suspend ==
  /\ started
  /\ started' = FALSE
  /\ messages' = <<>>
  /\ UNCHANGED <<db, latest, last, netVars, clientVars, usedIds>>

\* Chat.onStart: CREATE TABLE IF NOT EXISTS, then load the table
OnStart ==
  /\ ~started
  /\ started' = TRUE
  /\ messages' = LoadAll(db)
  /\ UNCHANGED <<db, latest, last, netVars, clientVars, usedIds>>

\* the record of a saveMessage call
SaveCall(m) ==
  [op |-> "saveMessage", ev |-> m,
   hit |-> FindIndex(messages, m.id) # 0,
   again |-> (last.op = "saveMessage" /\ last.ev = m),
   completed |-> UpsertRuns(m)]

\* saveMessage that runs the SQL statement first and touches the log only
\* when the statement has run
SaveStoreFirst(m) ==
  /\ messages' = IF UpsertRuns(m) THEN SaveLog(messages, m) ELSE messages
  /\ db' = Upsert(db, m)
  /\ latest' = [latest EXCEPT ![m.id] = [seen |-> TRUE, content |-> m.content]]

\* the body of Chat.saveMessage(message): the log first, then the SQL
\* statement; when sql.exec throws, the log has already changed
Save(m) ==
  /\ messages' = SaveLog(messages, m)
  /\ db' = Upsert(db, m)
  /\ latest' = [latest EXCEPT ![m.id] = [seen |-> TRUE, content |-> m.content]]

\* Chat.saveMessage(message) called with any event
SaveMessage(m) ==
  /\ started
  /\ Save(m)
  /\ last' = SaveCall(m)
  /\ UNCHANGED <<started, netVars, clientVars, usedIds>>

\* onConnect that registers the connection and sends it nothing
OnConnectWithoutSnapshot(c) ==
  /\ started
  /\ c \notin conns
  /\ ~isConnected[c]
  /\ inbox[c] = <<>>
  /\ conns' = conns \cup {c}
  /\ inbox' = [inbox EXCEPT ![c] = <<OpenSignal>>]
  /\ outbox' = [outbox EXCEPT ![c] = <<>>]
  /\ UNCHANGED <<coordVars, last, clientVars, usedIds>>

\* Chat.onConnect(connection), with the socket's open event ahead of the
\* snapshot in what the session has to dispatch
OnConnect(c) ==
  /\ started
  /\ c \notin conns
  /\ ~isConnected[c]
  /\ inbox[c] = <<>>
  /\ conns' = conns \cup {c}
  /\ inbox' = [inbox EXCEPT ![c] = <<OpenSignal, Snapshot(messages)>>]
  /\ outbox' = [outbox EXCEPT ![c] = <<>>]
  /\ UNCHANGED <<coordVars, last, clientVars, usedIds>>

\* the connection is lost: the Coordinator no longer broadcasts to it, what
\* the session sent and was not served is gone, the socket fires close or
\* error after what it had already received
Disconnect(c, signal) ==
  /\ c \in conns
  /\ conns' = conns \ {c}
  /\ inbox' = [inbox EXCEPT ![c] = Append(@, signal)]
  /\ outbox' = [outbox EXCEPT ![c] = <<>>]
  /\ UNCHANGED <<coordVars, last, clientVars, usedIds>>

\* Server.broadcast(msg, without): every connection but those in `without`
BroadcastTargets(connections, without) == connections \ without

\* does Chat.onMessage return, or does JSON.parse or sql.exec throw out of it
OnMessageReturns(raw) ==
  /\ Parses(raw)
  /\ raw.type \in {"add", "update"} => UpsertRuns(raw)

\* onMessage that relays to every connection but the one that sent
OnMessageWithoutSender(c, raw) ==
  /\ started
  /\ c \in conns
  /\ \A d \in conns : Len(inbox[d]) < MaxQueue
  /\ inbox' = [d \in Clients |->
                 IF d \in BroadcastTargets(conns, {c}) THEN Append(inbox[d], raw) ELSE inbox[d]]
  /\ IF Parses(raw) /\ raw.type \in {"add", "update"}
     THEN Save(raw)
     ELSE UNCHANGED <<messages, db, latest>>
  /\ UNCHANGED <<started, conns, last>>

\* Chat.onMessage(connection, message): this.broadcast(message) with no
\* second argument, then JSON.parse and saveMessage
OnMessage(c, raw) ==
  /\ started
  /\ c \in conns
  /\ \A d \in conns : Len(inbox[d]) < MaxQueue
  /\ inbox' = [d \in Clients |->
                 IF d \in BroadcastTargets(conns, {}) THEN Append(inbox[d], raw) ELSE inbox[d]]
  /\ IF Parses(raw) /\ raw.type \in {"add", "update"}
     THEN Save(raw)
     ELSE UNCHANGED <<messages, db, latest>>
  /\ UNCHANGED <<started, conns, last>>

\* the Coordinator serves what session c sent first
ServeMessage(c) ==
  /\ outbox[c] # <<>>
  /\ OnMessage(c, Head(outbox[c]))
  /\ outbox' = [outbox EXCEPT ![c] = Tail(@)]
  /\ UNCHANGED <<clientVars, usedIds>>

(***************************************************************************)
(* Client Reconciler                                                       *)
(***************************************************************************)
\* userInfo.userName of a session
UserName(c) == IF c = 1 THEN <<"u">> ELSE [i \in 1..(c - 1) |-> "v"]

\* what a session types into the message input
SendContents == {<<"h", "i">>}

\* onOpen: setIsConnected(true)
OnOpen(c) ==
  /\ isConnected' = [isConnected EXCEPT ![c] = TRUE]
  /\ UNCHANGED <<clientMessages, closure>>

\* onClose that also empties the view
OnCloseClearsView(c) ==
  /\ isConnected' = [isConnected EXCEPT ![c] = FALSE]
  /\ clientMessages' = [clientMessages EXCEPT ![c] = <<>>]
  /\ UNCHANGED closure

\* onClose: setIsConnected(false)
OnClose(c) ==
  /\ isConnected' = [isConnected EXCEPT ![c] = FALSE]
  /\ UNCHANGED <<clientMessages, closure>>

\* onError: setIsConnected(false)
OnError(c) ==
  /\ isConnected' = [isConnected EXCEPT ![c] = FALSE]
  /\ UNCHANGED <<clientMessages, closure>>

\* the handler's body is inside try / catch: nothing is thrown out of it
ClientOnMessageReturns(message) == TRUE

\* the record of an onMessage call of a session
ReceiveCall(c, message) ==
  [op |-> "clientOnMessage", ev |-> message,
   hit |-> IF message.type = "all"
           THEN ~(IdsOf(clientMessages[c]) \subseteq IdsOf(message.messages))
           ELSE IF message.type \in {"add", "update"}
           THEN message.id \in IdsOf(clientMessages[c])
           ELSE FALSE,
   again |-> (last.op = "clientOnMessage" /\ last.ev = message),
   completed |-> ClientOnMessageReturns(message)]

\* onMessage of usePartySocket for a parsed event
ClientOnMessage(c, message) ==
  /\ Len(Reconciled(clientMessages[c], closure[c].ids, message)) <= MaxView
  /\ clientMessages' =
       [clientMessages EXCEPT ![c] = Reconciled(@, closure[c].ids, message)]
  /\ UNCHANGED <<closure, isConnected>>

\* what the handlers of a render close over
Rendered(view, connected) == [ids |-> IdSeq(view), isConnected |-> connected]

\* React renders the session: from now on its handlers close over the
\* current state
Render(c) ==
  /\ closure[c] # Rendered(clientMessages[c], isConnected[c])
  /\ closure' = [closure EXCEPT ![c] = Rendered(clientMessages[c], isConnected[c])]
  /\ UNCHANGED <<clientMessages, isConnected, last, coordVars, netVars, usedIds>>

\* nanoid(8): an id that does not exist yet (the least one, ids being
\* interchangeable); 0 when the ids of the model are used up
FreshId(used) ==
  IF Ids \ used = {} THEN 0
  ELSE CHOOSE i \in Ids \ used : \A j \in Ids \ used : i <= j

\* an add event that carries a timestamp of its own
SentEventRestamped(chatMessage) ==
  [type |-> "add", id |-> chatMessage.id, content |-> chatMessage.content,
   user |-> chatMessage.user, role |-> chatMessage.role, timestamp |-> NoTs]

\* the add event handleMessageSubmit sends for chatMessage
SentEvent(chatMessage) ==
  [type |-> "add", id |-> chatMessage.id, content |-> chatMessage.content,
   user |-> chatMessage.user, role |-> chatMessage.role,
   timestamp |-> chatMessage.timestamp]

\* handleMessageSubmit for a non-empty input: the id is nanoid(8); the
\* submit is rendered before the next event of the socket is dispatched
SendMessage(c, id, content) ==
  /\ closure[c].isConnected
  /\ id = FreshId(usedIds)
  /\ Len(clientMessages[c]) < MaxView
  /\ LET chatMessage == [type |-> NoType, id |-> id, content |-> content,
                         user |-> UserName(c), role |-> "user", timestamp |-> Now]
     IN /\ clientMessages' = [clientMessages EXCEPT ![c] = Append(@, chatMessage)]
        /\ outbox' = [outbox EXCEPT ![c] = Append(@, SentEvent(chatMessage))]
        /\ closure' = [closure EXCEPT
                         ![c] = Rendered(Append(clientMessages[c], chatMessage), isConnected[c])]
  /\ usedIds' = usedIds \cup {id}
  /\ UNCHANGED <<isConnected, last, coordVars, conns, inbox>>

\* the socket of session c dispatches its next event
DispatchOpen(c) ==
  /\ inbox[c] # <<>>
  /\ Head(inbox[c]) = OpenSignal
  /\ OnOpen(c)
  /\ inbox' = [inbox EXCEPT ![c] = Tail(@)]
  /\ UNCHANGED <<coordVars, conns, outbox, usedIds, last>>

DispatchClose(c) ==
  /\ inbox[c] # <<>>
  /\ Head(inbox[c]) = CloseSignal
  /\ OnClose(c)
  /\ inbox' = [inbox EXCEPT ![c] = Tail(@)]
  /\ UNCHANGED <<coordVars, conns, outbox, usedIds, last>>

DispatchError(c) ==
  /\ inbox[c] # <<>>
  /\ Head(inbox[c]) = ErrorSignal
  /\ OnError(c)
  /\ inbox' = [inbox EXCEPT ![c] = Tail(@)]
  /\ UNCHANGED <<coordVars, conns, outbox, usedIds, last>>

DispatchMessage(c) ==
  /\ inbox[c] # <<>>
  /\ Head(inbox[c]) \notin {OpenSignal, CloseSignal, ErrorSignal}
  /\ ClientOnMessage(c, Head(inbox[c]))
  /\ inbox' = [inbox EXCEPT ![c] = Tail(@)]
  /\ UNCHANGED <<coordVars, conns, outbox, usedIds, last>>

(***************************************************************************)
(* Specifications                                                          *)
(***************************************************************************)
Next ==
  \/ OnStart
  \/ Suspend
  \/ \E c \in Clients : OnConnect(c)
  \/ \E c \in Clients : Disconnect(c, CloseSignal)
  \/ \E c \in Clients : ServeMessage(c)
  \/ \E c \in Clients : DispatchOpen(c)
  \/ \E c \in Clients : DispatchClose(c)
  \/ \E c \in Clients : DispatchMessage(c)
  \/ \E c \in Clients : Render(c)
  \/ \E c \in Clients : \E id \in Ids : \E content \in SendContents : SendMessage(c, id, content)

\* the room: one Coordinator and NumClients sessions of the React client
Spec == Init /\ [][Next]_vars

NextStore ==
  \/ OnStart
  \/ Suspend
  \/ \E m \in Events : SaveMessage(m)

\* the Coordinator's log and table under any sequence of events
SpecStore == Init /\ [][NextStore]_vars

\* the events of SpecLog: a plain body and the one whose statement throws
LogEvents == EventsOf({PlainBody, QuoteBody})

NextLog ==
  \/ OnStart
  \/ Suspend
  \/ \E m \in LogEvents : SaveMessage(m)

\* the same handlers under the events of LogEvents
SpecLog == Init /\ [][NextLog]_vars

\* the events of SpecPlain: the two bodies whose SQL text is well formed
\* and read back unchanged
PlainEvents == EventsOf({PlainBody, OtherBody})

NextPlain ==
  \/ OnStart
  \/ Suspend
  \/ \E m \in PlainEvents : SaveMessage(m)

\* the same handlers under the events of PlainEvents
SpecPlain == Init /\ [][NextPlain]_vars

\* the session whose handlers SpecClient drives
TheClient == CHOOSE c \in Clients : \A d \in Clients : c <= d

\* the logs a snapshot can carry: what onStart loads from a table of rows
\* with distinct ids
SnapshotLogs ==
  { L \in UNION { [1..n -> { LoadAll(<<InsertRow(e)>>)[1] : e \in PlainEvents }]
                  : n \in 0..NumIds } : NoDuplicateIds(L) }

\* what the socket of a session can receive
ClientInputs == PlainEvents \cup { Snapshot(L) : L \in SnapshotLogs } \cup Malformed

\* the ids an incoming event names
IdsIn(message) ==
  IF message.type = "all" THEN IdsOf(message.messages)
  ELSE IF message.type \in {"add", "update"} THEN {message.id}
  ELSE {}

\* the socket of TheClient dispatches an event of the environment's choice
Receive(message) ==
  /\ ClientOnMessage(TheClient, message)
  /\ last' = ReceiveCall(TheClient, message)
  /\ usedIds' = usedIds \cup IdsIn(message)
  /\ UNCHANGED <<coordVars, netVars>>

Opened ==
  /\ OnOpen(TheClient)
  /\ UNCHANGED <<coordVars, netVars, usedIds, last>>

Closed ==
  /\ OnClose(TheClient)
  /\ UNCHANGED <<coordVars, netVars, usedIds, last>>

Failed ==
  /\ OnError(TheClient)
  /\ UNCHANGED <<coordVars, netVars, usedIds, last>>

NextClient ==
  \/ Opened
  \/ Closed
  \/ Failed
  \/ \E message \in ClientInputs : Receive(message)
  \/ Render(TheClient)
  \/ \E id \in Ids : \E content \in SendContents : SendMessage(TheClient, id, content)

\* one Client Reconciler under any sequence of socket events
SpecClient == Init /\ [][NextClient]_vars

(***************************************************************************)
(* The second revision of the client (handlers of the second App)          *)
(***************************************************************************)
\* a parsed object of another type that carries a list of messages
Mislabelled(L) == [type |-> "ping", messages |-> L]

\* does the payload have a `messages` property
HasMessages(message) == "messages" \in DOMAIN message

\* onMessage of the second revision: no try / catch, and whatever is neither
\* add nor update goes through the branch of the snapshot
Reconciled2(view, seen, message) ==
  IF ~Parses(message) THEN view
  ELSE IF message.type = "add" THEN ApplyAdd(view, seen, message)
  ELSE IF message.type = "update" THEN ApplyUpdate(view, message)
  ELSE IF HasMessages(message) THEN ApplyAll(view, message.messages)
  ELSE view

\* JSON.parse throws on a text that is no JSON, message.messages.map throws
\* when there is no such property
ClientOnMessageReturns2(message) ==
  /\ Parses(message)
  /\ message.type \notin {"add", "update"} => HasMessages(message)

ClientOnMessage2(c, message) ==
  /\ Len(Reconciled2(clientMessages[c], closure[c].ids, message)) <= MaxView
  /\ clientMessages' =
       [clientMessages EXCEPT ![c] = Reconciled2(@, closure[c].ids, message)]
  /\ UNCHANGED <<closure, isConnected>>

\* handleSendMessage: the guard is the input and userInfo only
SendMessage2(c, id, content) ==
  /\ id = FreshId(usedIds)
  /\ Len(clientMessages[c]) < MaxView
  /\ LET chatMessage == [type |-> NoType, id |-> id, content |-> content,
                         user |-> UserName(c), role |-> "user", timestamp |-> Now]
     IN /\ clientMessages' = [clientMessages EXCEPT ![c] = Append(@, chatMessage)]
        /\ outbox' = [outbox EXCEPT ![c] = Append(@, SentEvent(chatMessage))]
        /\ closure' = [closure EXCEPT
                         ![c] = Rendered(Append(clientMessages[c], chatMessage), isConnected[c])]
  /\ usedIds' = usedIds \cup {id}
  /\ UNCHANGED <<isConnected, last, coordVars, conns, inbox>>

\* what the socket of the second revision can receive
ClientInputs2 == ClientInputs \cup { Mislabelled(L) : L \in SnapshotLogs }

Receive2(message) ==
  /\ ClientOnMessage2(TheClient, message)
  /\ last' = [ReceiveCall(TheClient, message) EXCEPT
                !.completed = ClientOnMessageReturns2(message)]
  /\ usedIds' = usedIds \cup (IF HasMessages(message)
                              THEN IdsOf(message.messages) ELSE IdsIn(message))
  /\ UNCHANGED <<coordVars, netVars>>

NextClient2 ==
  \/ \E message \in ClientInputs2 : Receive2(message)
  \/ Render(TheClient)
  \/ \E id \in Ids : \E content \in SendContents : SendMessage2(TheClient, id, content)

\* one Client Reconciler of the second revision under any socket events
SpecClient2 == Init /\ [][NextClient2]_vars

(***************************************************************************)
(* One sender, one listener, and content that the SQL text changes         *)
(***************************************************************************)
\* a Message as the data model has it
AsMessage(e) == [id |-> e.id, content |-> e.content, user |-> e.user, role |-> e.role]

AsMessages(L) == [i \in DOMAIN L |-> AsMessage(L[i])]

\* the session that types messages in SpecSync; the other sessions listen
Sender == TheClient

\* what the sender types: a text with a backslash in it
SyncContents == {BackslashBody.content}

\* the object is dropped from memory only while no event waits to be served
SuspendIdle ==
  /\ \A c \in Clients : outbox[c] = <<>>
  /\ Suspend

NextSync ==
  \/ OnStart
  \/ SuspendIdle
  \/ \E c \in Clients : OnConnect(c)
  \/ \E c \in Clients : Disconnect(c, CloseSignal)
  \/ \E c \in Clients : ServeMessage(c)
  \/ \E c \in Clients : DispatchOpen(c)
  \/ \E c \in Clients : DispatchClose(c)
  \/ \E c \in Clients : DispatchMessage(c)
  \/ \E c \in Clients : Render(c)
  \/ \E id \in Ids : \E content \in SyncContents : SendMessage(Sender, id, content)

\* the room with one sender
SpecSync == Init /\ [][NextSync]_vars

(***************************************************************************)
(* The Coordinator served any payload by one connection                    *)
(***************************************************************************)
\* what a connection can send: adds of a plain message, updates whose SQL
\* statement throws, and payloads that are no events
ServeInputs ==
  { Event("add", i, PlainBody) : i \in Ids }
    \cup { Event("update", i, QuoteBody) : i \in Ids }
    \cup Malformed

\* a payload of the environment's choice arrives on connection c
Deliver(c, raw) ==
  /\ OnMessage(c, raw)
  /\ UNCHANGED <<outbox, clientVars, usedIds>>

NextServe ==
  \/ OnStart
  \/ \E c \in Clients : OnConnect(c)
  \/ \E raw \in ServeInputs : Deliver(TheClient, raw)
  \/ \E c \in Clients : DispatchOpen(c)
  \/ \E c \in Clients : DispatchMessage(c)
  \/ \E c \in Clients : Render(c)

\* the Coordinator, one connection that sends what it likes, and listeners
SpecServe == Init /\ [][NextServe]_vars

(***************************************************************************)
(* One session that loses its connection and reconnects                    *)
(***************************************************************************)
\* from now on the session sends nothing and its connection is not lost
QuietCall == [NoCall EXCEPT !.op = "quiet"]

Quiet == last = QuietCall

Quiesce ==
  /\ ~Quiet
  /\ last' = QuietCall
  /\ UNCHANGED <<coordVars, netVars, clientVars, usedIds>>

NextReconnect ==
  \/ OnStart
  \/ SuspendIdle
  \/ Quiesce
  \/ OnConnect(TheClient)
  \/ Suspend
  \/ ~Quiet /\ Disconnect(TheClient, CloseSignal)
  \/ ServeMessage(TheClient)
  \/ DispatchOpen(TheClient)
  \/ DispatchClose(TheClient)
  \/ DispatchMessage(TheClient)
  \/ Render(TheClient)
  \/ \E id \in Ids : \E content \in SyncContents :
       ~Quiet /\ SendMessage(TheClient, id, content)

\* the Coordinator wakes up and serves what has arrived; the socket
\* dispatches what it has received; React renders a changed state
FairReconnect ==
  /\ WF_vars(OnStart)
  /\ WF_vars(ServeMessage(TheClient))
  /\ WF_vars(DispatchOpen(TheClient))
  /\ WF_vars(DispatchClose(TheClient))
  /\ WF_vars(DispatchMessage(TheClient))
  /\ WF_vars(Render(TheClient))

\* the Coordinator and one session, under fair delivery
SpecReconnect == Init /\ [][NextReconnect]_vars /\ FairReconnect

(***************************************************************************)
(* One session whose connection is lost by close or by error               *)
(***************************************************************************)
NextLoss ==
  \/ OnStart
  \/ OnConnect(TheClient)
  \/ Disconnect(TheClient, CloseSignal)
  \/ Disconnect(TheClient, ErrorSignal)
  \/ ServeMessage(TheClient)
  \/ DispatchOpen(TheClient)
  \/ DispatchClose(TheClient)
  \/ DispatchError(TheClient)
  \/ DispatchMessage(TheClient)
  \/ Render(TheClient)
  \/ \E id \in Ids : \E content \in SendContents : SendMessage(TheClient, id, content)

\* the Coordinator and one session that connects, loses the connection and
\* connects again
SpecLoss == Init /\ [][NextLoss]_vars

(***************************************************************************)
(* Sessions that connect once and keep their connection                    *)
(***************************************************************************)
NextConnectedOnce ==
  \/ OnStart
  \/ SuspendIdle
  \/ \E c \in Clients : OnConnect(c)
  \/ \E c \in Clients : ServeMessage(c)
  \/ \E c \in Clients : DispatchOpen(c)
  \/ \E c \in Clients : DispatchMessage(c)
  \/ \E c \in Clients : Render(c)
  \/ \E c \in Clients : \E id \in Ids : \E content \in SendContents : SendMessage(c, id, content)

\* the room while no connection is lost
SpecConnectedOnce == Init /\ [][NextConnectedOnce]_vars

(***************************************************************************)
(* Claims about the Coordinator's log and table                            *)
(***************************************************************************)
\* C1: in every reachable state of the Coordinator the in-memory log holds
\* at most one entry for any id.
C1_LogHasNoDuplicateIds == NoDuplicateIds(messages)

\* an add for an id that was already in a log of NumIds entries was served
C1_Witness ==
  /\ last.op = "saveMessage"
  /\ last.ev.type = "add"
  /\ last.hit
  /\ Len(messages) = NumIds

\* where in L the entry of add event e ends up: where the id already is,
\* otherwise at the end
FirstOccurrence(L, e) ==
  IF e.id \in IdsOf(L) THEN CHOOSE i \in DOMAIN L : L[i].id = e.id ELSE Len(L) + 1

\* C3: for the log L of any reachable state and every add event e, applying
\* e twice gives the same log as applying it once, and that log holds
\* exactly one entry with e's id, which is e, at the position where the id
\* first occurred (its position in L, or the end of L).
C3_IdempotentAdd ==
  \A e \in AddEvents :
    LET once == SaveLog(messages, e)
        twice == SaveLog(once, e)
    IN /\ twice = once
       /\ CountId(once, e.id) = 1
       /\ once[FirstOccurrence(messages, e)] = e

\* the same add event was served twice in a row, on a log with another id
C3_Witness ==
  /\ last.op = "saveMessage"
  /\ last.ev.type = "add"
  /\ last.again
  /\ Len(messages) = NumIds
  /\ messages[1].id = last.ev.id

\* C6: an update event whose id is already in the log leaves the length and
\* the sequence of ids of the log as they were, gives the entry with that
\* id the content, user and role of the event, and changes no other entry.
C6_InPlaceUpdate ==
  [][\A m \in UpdateEvents :
       (SaveMessage(m) /\ m.id \in IdsOf(messages)) =>
         /\ Len(messages') = Len(messages)
         /\ IdSeq(messages') = IdSeq(messages)
         /\ \A i \in DOMAIN messages :
              IF messages[i].id = m.id
              THEN /\ messages'[i].content = m.content
                   /\ messages'[i].user = m.user
                   /\ messages'[i].role = m.role
              ELSE messages'[i] = messages[i]]_vars

\* an update event other than the event served before it replaced the
\* first of NumIds entries
C6_Witness ==
  /\ last.op = "saveMessage"
  /\ last.ev.type = "update"
  /\ last.hit
  /\ ~last.again
  /\ Len(messages) = NumIds
  /\ messages[1] = last.ev

\* C9: reloading the log from storage yields exactly one record per id that
\* occurred in the events processed, and each record's content is the
\* content of the last event processed for its id.
C9_PersistenceRoundTrip ==
  LET reloaded == LoadAll(db)
  IN /\ NoDuplicateIds(reloaded)
     /\ IdsOf(reloaded) = { i \in Ids : latest[i].seen }
     /\ \A k \in DOMAIN reloaded : reloaded[k].content = latest[reloaded[k].id].content

\* C10: after every completed saveMessage the row keyed by the event's id
\* has the user, role and content of the log's entry for that id.
C10_RowEqualsLogEntry ==
  [][\A m \in PlainEvents :
       (SaveMessage(m) /\ UpsertRuns(m)) =>
         \E k \in DOMAIN db' :
           LET entry == messages'[FindIndex(messages', m.id)]
           IN /\ db'[k].id = m.id
              /\ db'[k].user = entry.user
              /\ db'[k].role = entry.role
              /\ db'[k].content = entry.content]_vars

(***************************************************************************)
(* Claims about the relay                                                  *)
(***************************************************************************)
\* C2: when the Coordinator serves an event of connection c, the relayed
\* event is not delivered to c, and it is delivered to every other
\* connection of the room.
C2_BroadcastExclusion ==
  [][\A c \in Clients :
       ServeMessage(c) =>
         /\ inbox'[c] = inbox[c]
         /\ \A d \in conns \ {c} : inbox'[d] = Append(inbox[d], Head(outbox[c]))]_vars

(***************************************************************************)
(* Claims about the Client Reconciler                                      *)
(***************************************************************************)
\* C4: when an add event is delivered to the Reconciler a second time
\* (whatever renders happened in between), the view then holds exactly one
\* entry with the event's id, where the id was before the second delivery.
C4_IdempotentAddTwoDeliveries ==
  [][\A e \in AddEvents :
       (Receive(e) /\ last.op = "clientOnMessage" /\ last.ev = e) =>
         /\ CountId(clientMessages'[TheClient], e.id) = 1
         /\ FindIndex(clientMessages'[TheClient], e.id)
              = FindIndex(clientMessages[TheClient], e.id)]_vars

\* C5: no two entries of the local view share an id.
C5_ViewHasNoDuplicateIds == NoDuplicateIds(clientMessages[TheClient])

\* C7: an update event leaves the length and the id order of the view as
\* they were and changes no entry with another id; the entries with its id
\* get its content, user and role, and when there is none the view stays
\* as it was.
C7_UpdateNeverGrowsView ==
  [][\A m \in UpdateEvents :
       Receive(m) =>
         LET before == clientMessages[TheClient]
             after == clientMessages'[TheClient]
         IN /\ Len(after) = Len(before)
            /\ IdSeq(after) = IdSeq(before)
            /\ \A i \in DOMAIN before :
                 IF before[i].id = m.id
                 THEN /\ after[i].content = m.content
                      /\ after[i].user = m.user
                      /\ after[i].role = m.role
                 ELSE after[i] = before[i]]_vars

\* an update for an id the view did not hold was delivered to a view that
\* holds another message
C7_Witness ==
  /\ last.op = "clientOnMessage"
  /\ last.ev.type = "update"
  /\ ~last.hit
  /\ clientMessages[TheClient] # <<>>

\* C8: after a snapshot {type: all, messages: M} the view has the ids of M
\* in the order of M, with the content, user and role M gives, and nothing
\* else.
C8_SnapshotReplacesView ==
  [][\A L \in SnapshotLogs :
       Receive(Snapshot(L)) =>
         LET after == clientMessages'[TheClient]
         IN /\ Len(after) = Len(L)
            /\ \A i \in DOMAIN L :
                 /\ after[i].id = L[i].id
                 /\ after[i].content = L[i].content
                 /\ after[i].user = L[i].user
                 /\ after[i].role = L[i].role]_vars

\* a snapshot that lists a message was delivered to a view that held a
\* message the snapshot does not list
C8_Witness ==
  /\ last.op = "clientOnMessage"
  /\ last.ev.type = "all"
  /\ last.ev.messages # <<>>
  /\ last.hit

(***************************************************************************)
(* Claims about the two ways a session learns of a message                 *)
(***************************************************************************)
\* a session that is connected and has dispatched everything sent to it,
\* while nothing waits to be served
UpToDate(c) ==
  /\ started
  /\ c \in conns
  /\ isConnected[c]
  /\ inbox[c] = <<>>
  /\ \A d \in Clients : outbox[d] = <<>>

\* C11: a listener that has received every relayed add of the sender's
\* messages holds the view a session connecting now gets from the snapshot:
\* the same ids in the same order, with the same content, user and role.
C11_SyncPathsConverge ==
  \A b \in Clients \ {Sender} :
    UpToDate(b) =>
      AsMessages(clientMessages[b]) = AsMessages(ApplyAll(<<>>, messages))

\* the events of a queue that are payloads of the Coordinator
Payloads(q) == SelectSeq(q, LAMBDA x : x \notin {OpenSignal, CloseSignal})

\* C12: onConnect sends the opening connection exactly one event of type
\* all, holding the in-memory log of that moment in log order; in what a
\* session has to dispatch the snapshot comes right after the socket's
\* open, and a relayed add or update is queued only to a connection that
\* onConnect has served.
C12_SnapshotOnConnect ==
  [][\A c \in Clients :
       /\ OnConnect(c) => Payloads(inbox'[c]) = <<Snapshot(messages)>>
       /\ \A i \in DOMAIN inbox'[c] :
            inbox'[c][i] = OpenSignal =>
              /\ i < Len(inbox'[c])
              /\ inbox'[c][i + 1].type = "all"
       /\ ( /\ Len(inbox'[c]) > Len(inbox[c])
            /\ inbox'[c][Len(inbox'[c])].type \in {"add", "update"} ) => c \in conns]_vars

\* a session that connected to a room with a message in its log has the
\* snapshot ahead of an add relayed since
C12_Witness ==
  \E c \in Clients :
    /\ Len(inbox[c]) = 2
    /\ inbox[c][1].type = "all"
    /\ inbox[c][1].messages # <<>>
    /\ inbox[c][2].type = "add"

(***************************************************************************)
(* Claims about reconnection                                               *)
(***************************************************************************)
\* the authoritative log: the in-memory log, or what onStart will load
\* while the object is not in memory
AuthoritativeLog == IF started THEN messages ELSE LoadAll(db)

\* the snapshot of a new connection is on its way to the session
Reconnecting(c) == \E i \in DOMAIN inbox[c] : inbox[c][i].type = "all"

Converged(c) == AsMessages(clientMessages[c]) = AsMessages(AuthoritativeLog)

\* C13: once a session has reconnected and nothing is sent any more, its
\* view eventually equals the Coordinator's log in ids, order, content, user
\* and role, and stays equal.
C13_ReconnectConverges ==
  []((Quiet /\ Reconnecting(TheClient)) => <>[]Converged(TheClient))

(***************************************************************************)
(* Claims about concurrent senders                                         *)
(***************************************************************************)
\* the users whose messages the log holds
Authors(L) == { L[i].user : i \in DOMAIN L }

\* no two ids that V and L both hold come in one order in V and in the
\* other order in L
SameOrder(V, L) ==
  \A i, j \in DOMAIN V :
    (i < j /\ V[i].id \in IdsOf(L) /\ V[j].id \in IdsOf(L) /\ V[i].id # V[j].id) =>
      FindIndex(L, V[i].id) < FindIndex(L, V[j].id)

\* C14: when every session has sent a message, and every event in flight
\* has been served and dispatched, the view of each session lists the
\* message ids in the order of the Coordinator's log, the session's own
\* messages included.
C14_NoReorderingDrift ==
  ( /\ \A c \in Clients : UpToDate(c)
    /\ Authors(messages) = { UserName(c) : c \in Clients } ) =>
      \A c \in Clients : SameOrder(clientMessages[c], messages)

(***************************************************************************)
(* Claims about Chat.onMessage                                             *)
(***************************************************************************)
\* C15: a payload that is no add or update event raises no error out of
\* onMessage and leaves the in-memory log and the table as they were.
C15_MalformedIsDropped ==
  [][\A c \in Clients : \A raw \in Malformed :
       Deliver(c, raw) =>
         /\ OnMessageReturns(raw)
         /\ messages' = messages
         /\ db' = db]_vars

(***************************************************************************)
(* Claims about malformed events at the client                             *)
(***************************************************************************)
\* C16: a payload that is unparseable, or whose type is none of add, update
\* and all, throws nothing out of the message handler and leaves the local
\* view as it was.
C16_ClientDropsMalformed ==
  [][\A raw \in ClientInputs2 :
       (Receive2(raw) /\ (~Parses(raw) \/ raw.type \notin {"add", "update", "all"})) =>
         /\ ClientOnMessageReturns2(raw)
         /\ clientMessages' = clientMessages]_vars

(***************************************************************************)
(* Claims about sending                                                    *)
(***************************************************************************)
\* C17: a send with non-empty content appends one entry to the end of the
\* view, with an id the view did not hold, role user, the content typed and
\* the sender's name, and transmits one add event with the id, content,
\* user, role and timestamp of that entry; losing the connection, and with
\* it the event, leaves the view as it is.
C17_SendAppendsAndTransmits ==
  [][LET c == TheClient
         view == clientMessages[c]
         after == clientMessages'[c]
         entry == after[Len(after)]
         sent == outbox'[c][Len(outbox'[c])]
     IN /\ \A id \in Ids : \A content \in SyncContents :
             SendMessage(c, id, content) =>
               /\ after = Append(view, entry)
               /\ entry.id \notin IdsOf(view)
               /\ entry.role = "user"
               /\ entry.content = content
               /\ entry.user = UserName(c)
               /\ outbox'[c] = Append(outbox[c], sent)
               /\ sent.type = "add"
               /\ AsMessage(sent) = AsMessage(entry)
               /\ sent.timestamp = entry.timestamp
        /\ (Disconnect(c, CloseSignal) \/ DispatchClose(c)) => after = view]_vars

\* the connection was lost with the add event of an entry unserved, and the
\* entry is still in the view
C17_Witness ==
  /\ started
  /\ TheClient \notin conns
  /\ outbox[TheClient] = <<>>
  /\ inbox[TheClient] = <<>>
  /\ \E i \in DOMAIN clientMessages[TheClient] :
       /\ clientMessages[TheClient][i].id \notin IdsOf(messages)
       /\ clientMessages[TheClient][i].user = UserName(TheClient)

(***************************************************************************)
(* Claims about the order of relay, log and table                          *)
(***************************************************************************)
\* C18: serving an add or update event queues that event, and nothing
\* else, to every other connection, changes the log by the merge rule, and
\* only then runs the upsert: when the statement throws, the relay is out
\* and the log is changed while the table is as it was, and no connection
\* gets a further event.
C18_RelayThenLogThenStore ==
  [][\A raw \in ServeInputs :
       (Deliver(TheClient, raw) /\ raw.type \in {"add", "update"}) =>
         /\ \A d \in Clients : inbox'[d] \in {inbox[d], Append(inbox[d], raw)}
         /\ \A d \in conns \ {TheClient} : inbox'[d] = Append(inbox[d], raw)
         /\ messages' = SaveLog(messages, raw)
         /\ db' = IF UpsertRuns(raw) THEN Upsert(db, raw) ELSE db]_vars

\* a listener has been sent an event that is in the log and whose upsert
\* threw
C18_Witness ==
  \E d \in Clients \ {TheClient} :
    /\ inbox[d] # <<>>
    /\ LET raw == inbox[d][Len(inbox[d])]
       IN /\ raw.type \in {"add", "update"}
          /\ ~UpsertRuns(raw)
          /\ \E i \in DOMAIN messages : messages[i] = raw
          /\ raw.id \notin IdsOf(db)

(***************************************************************************)
(* Claims about the merge rule                                             *)
(***************************************************************************)
\* the messages of a log, without the type tag of the event they came in
Untyped(L) == [i \in DOMAIN L |-> [L[i] EXCEPT !.type = NoType]]

\* C19: for the log and the table of every reachable state and every
\* message m, saveMessage of add(m) and of update(m) give the same messages
\* in the log and the same table, and an update whose id the log lacks is
\* appended at the end.
C19_AddAndUpdateMergeAlike ==
  \A i \in Ids : \A b \in {PlainBody, QuoteBody} :
    LET add == Event("add", i, b)
        update == Event("update", i, b)
    IN /\ Untyped(SaveLog(messages, add)) = Untyped(SaveLog(messages, update))
       /\ Upsert(db, add) = Upsert(db, update)
       /\ i \notin IdsOf(messages) => SaveLog(messages, update) = Append(messages, update)

\* an update for an id the log lacked was saved and sits at the end of a
\* log of NumIds entries
C19_Witness ==
  /\ last.op = "saveMessage"
  /\ last.ev.type = "update"
  /\ ~last.hit
  /\ Len(messages) = NumIds
  /\ messages[NumIds] = last.ev

(***************************************************************************)
(* Claims about sending while the transport is not open                    *)
(***************************************************************************)
\* C20: in every step in which handleMessageSubmit appends to the view and
\* sends, the transport of the session is open: onOpen was the last of
\* onOpen, onClose and onError to run.
C20_SendDisabledWhileNotOpen ==
  [][\A id \in Ids : \A content \in SendContents :
       SendMessage(TheClient, id, content) => isConnected[TheClient]]_vars

(***************************************************************************)
(* Claims about connection loss                                            *)
(***************************************************************************)
\* C21: a step in which the socket of the session dispatches close or error
\* leaves the session's view unchanged, and while the session is not
\* connected (from the loss to the open event that precedes the next
\* snapshot, and before the first open) the view changes only in steps of
\* handleMessageSubmit.
C21_LossLeavesViewIntact ==
  [][/\ (DispatchClose(TheClient) \/ DispatchError(TheClient))
          => clientMessages' = clientMessages
     /\ (~isConnected[TheClient] /\ clientMessages' # clientMessages)
          => \E id \in Ids : \E content \in SendContents :
               SendMessage(TheClient, id, content)]_vars

\* the connection was lost and its close or error event dispatched while
\* the view held a message
C21_Witness ==
  /\ ~isConnected[TheClient]
  /\ TheClient \notin conns
  /\ inbox[TheClient] = <<>>
  /\ clientMessages[TheClient] # <<>>

(***************************************************************************)
(* Claims about what the Coordinator keeps                                 *)
(***************************************************************************)
\* every id of log L is in log M, M is no shorter, and two ids of L stand
\* in M in the order they have in L
LogPreserved(L, M) ==
  /\ IdsOf(L) \subseteq IdsOf(M)
  /\ Len(M) >= Len(L)
  /\ \A i, j \in DOMAIN L :
       i < j => FindIndex(M, L[i].id) < FindIndex(M, L[j].id)

\* C22: every step of onConnect and every step of onMessage, whatever the
\* payload and whether or not its SQL statement runs, keeps every id of
\* the log, does not shorten the log and keeps the order of its ids.
C22_NothingIsDeleted ==
  [][((\E c \in Clients : OnConnect(c))
        \/ (\E raw \in ServeInputs : Deliver(TheClient, raw)))
       => LogPreserved(messages, messages')]_vars

\* both sessions are connected and the first of NumIds entries, once added
\* and stored, was replaced in place by an update
C22_Witness ==
  /\ conns = Clients
  /\ Len(messages) = NumIds
  /\ messages[1].type = "update"
  /\ messages[1].id \in IdsOf(db)

(***************************************************************************)
(* Claims about suspension                                                 *)
(***************************************************************************)
\* C23: when the object is dropped from memory, the snapshot onConnect
\* sends after onStart has reloaded the table lists the same ids in the
\* same order as the snapshot it would have sent just before.
C23_SuspensionIsInvisible ==
  [][Suspend =>
       IdSeq(Snapshot(LoadAll(db)).messages) = IdSeq(Snapshot(messages).messages)]_vars

(***************************************************************************)
(* Claims about the add branch under a view that has moved on              *)
(***************************************************************************)
\* the entries of a view whose id is not id, in order
Others(view, id) == SelectSeq(view, LAMBDA x : x.id # id)

\* C24: a step in which the socket of a session dispatches an add event
\* leaves the entries of that session's view whose id is not the event's
\* id as they were, in the same order.
C24_AddKeepsOtherEntries ==
  [][\A c \in Clients :
       (DispatchMessage(c) /\ Head(inbox[c]).type = "add") =>
         Others(clientMessages'[c], Head(inbox[c]).id)
           = Others(clientMessages[c], Head(inbox[c]).id)]_vars

====
